---- MODULE Spec2Model ----
(***************************************************************************)
(* Model of runcosi.py: one block of cosi2 replicas.                       *)
(*                                                                         *)
(* do_main combines two parameter fragments into paramFileCombined.par,    *)
(* runs run_one_replica for replicaNum = 0 .. numSimsInBlock-1 and writes  *)
(* the list of the returned ReplicaInfo dicts to the outJson manifest.     *)
(*                                                                         *)
(* Python strings are sequences of one-character strings, so that the      *)
(* f-string file names, str.split and float() are computed, not assumed.   *)
(* A Python float is [k |-> "fin", v |-> value * Scale] (fixed point),     *)
(* [k |-> "inf"] or [k |-> "nan"]; a Python int is a TLA+ integer.         *)
(* Files named by --outJson, --paramFileCommon, --paramFile and            *)
(* --recombFile are taken to be different files from the ones the block    *)
(* generates in its working directory.                                     *)
(***************************************************************************)
EXTENDS Integers, Sequences, FiniteSets, TLC

\* ------------------------------------------------------------------------
\* Bounds of the model
\* ------------------------------------------------------------------------

\* largest --numSimsInBlock explored
MaxSims == 2

\* number of fractional decimal digits kept by the fixed-point floats
FracDigits == 2

\* ------------------------------------------------------------------------
\* Program constants
\* ------------------------------------------------------------------------

\* upper end of random.SystemRandom().randint(0, 2147483646)
SeedMax == 2147483646

\* slurp_file(fname, maxSizeMb=50)
maxSizeMb == 50

\* paramFileCombined = 'paramFileCombined.par'
paramFileCombined == <<"p", "a", "r", "a", "m", "F", "i", "l", "e", "C", "o", "m", "b", "i", "n", "e", "d", ".", "p", "a", "r">>

\* ------------------------------------------------------------------------
\* Strings
\* ------------------------------------------------------------------------

Digits == <<"0", "1", "2", "3", "4", "5", "6", "7", "8", "9">>

DigitSet == {Digits[i] : i \in 1..10}

DigitVal(c) == (CHOOSE i \in 1..10 : Digits[i] = c) - 1

RECURSIVE Pow10(_)
Pow10(n) == IF n = 0 THEN 1 ELSE 10 * Pow10(n - 1)

Scale == Pow10(FracDigits)

\* format(n) of a non-negative int inside an f-string: its decimal digits
RECURSIVE Decimal(_)
Decimal(n) == IF n < 10 THEN <<Digits[n + 1]>>
              ELSE Decimal(n \div 10) \o <<Digits[(n % 10) + 1]>>

\* str.endswith
EndsWith(s, suffix) ==
    /\ Len(s) >= Len(suffix)
    /\ SubSeq(s, Len(s) - Len(suffix) + 1, Len(s)) = suffix

Whitespace == {" ", "\t", "\n", "\r"}

\* str.strip()
RECURSIVE Strip(_)
Strip(s) == IF s = <<>> THEN s
            ELSE IF Head(s) \in Whitespace THEN Strip(Tail(s))
            ELSE IF s[Len(s)] \in Whitespace THEN Strip(SubSeq(s, 1, Len(s) - 1))
            ELSE s

\* str.split() without arguments: the maximal runs of non-whitespace
RECURSIVE SplitFrom(_, _, _, _)
SplitFrom(s, i, cur, acc) ==
    IF i > Len(s) THEN (IF cur = <<>> THEN acc ELSE Append(acc, cur))
    ELSE IF s[i] \in Whitespace
         THEN SplitFrom(s, i + 1, <<>>, IF cur = <<>> THEN acc ELSE Append(acc, cur))
         ELSE SplitFrom(s, i + 1, Append(cur, s[i]), acc)

Split(s) == SplitFrom(s, 1, <<>>, <<>>)

\* ------------------------------------------------------------------------
\* float() and int()
\* ------------------------------------------------------------------------

Float(x) == [k |-> "fin", v |-> x * Scale]

FloatErr == [k |-> "err"]

AllDigits(s) == \A i \in 1..Len(s) : s[i] \in DigitSet

RECURSIVE IntVal(_)
IntVal(s) == IF s = <<>> THEN 0
             ELSE 10 * IntVal(SubSeq(s, 1, Len(s) - 1)) + DigitVal(s[Len(s)])

\* value * Scale of the fractional digits, cut at FracDigits digits
FracVal(s) ==
    LET padded == s \o [i \in 1..FracDigits |-> "0"]
    IN  IntVal(SubSeq(padded, 1, FracDigits))

\* float() of an unsigned decimal literal (no exponent part)
ParseUnsigned(s) ==
    LET dots == {i \in 1..Len(s) : s[i] = "."}
    IN  IF s = <<"i", "n", "f">> THEN [k |-> "inf"]
        ELSE IF s = <<"n", "a", "n">> THEN [k |-> "nan"]
        ELSE IF dots = {}
             THEN IF s # <<>> /\ AllDigits(s)
                  THEN [k |-> "fin", v |-> IntVal(s) * Scale]
                  ELSE FloatErr
        ELSE IF Cardinality(dots) > 1 THEN FloatErr
        ELSE LET d == CHOOSE i \in dots : TRUE
                 ip == SubSeq(s, 1, d - 1)
                 fp == SubSeq(s, d + 1, Len(s))
             IN  IF AllDigits(ip) /\ AllDigits(fp) /\ Len(ip) + Len(fp) > 0
                 THEN [k |-> "fin", v |-> IntVal(ip) * Scale + FracVal(fp)]
                 ELSE FloatErr

\* float(token): ValueError is FloatErr
ParseFloat(s) ==
    IF s # <<>> /\ Head(s) \in {"-", "+"}
    THEN LET u == ParseUnsigned(Tail(s))
         IN  IF u.k = "fin" /\ Head(s) = "-" THEN [k |-> "fin", v |-> 0 - u.v]
             ELSE u
    ELSE ParseUnsigned(s)

\* variant: int() that rounds down instead of toward zero
IntOfFloor(f) == f.v \div Scale

\* int(f) of a finite float: truncation toward zero
IntOf(f) == IF f.v >= 0 THEN f.v \div Scale ELSE 0 - ((0 - f.v) \div Scale)

\* ------------------------------------------------------------------------
\* File names built by run_one_replica
\* ------------------------------------------------------------------------

\* tpedPrefix = f"{args.simBlockId}_rep{replicaNum}"
TpedPrefix(simBlockId, n) == simBlockId \o <<"_", "r", "e", "p">> \o Decimal(n)

\* trajFile = f"{args.simBlockId}.{replicaNum}.traj"
TrajFile(simBlockId, n) == simBlockId \o <<".">> \o Decimal(n) \o <<".", "t", "r", "a", "j">>

\* variant: a sweep-info name without the replica index
SweepInfoFileNoIndex(n) == <<"s", "w", "e", "e", "p", "i", "n", "f", "o", ".", "t", "s", "v">>

\* sweepInfoFile = f"sweepinfo.{replicaNum}.tsv"
SweepInfoFile(n) == <<"s", "w", "e", "e", "p", "i", "n", "f", "o", ".">> \o Decimal(n) \o <<".", "t", "s", "v">>

\* emptyFile = f"empty.rep{replicaNum}"
EmptyFile(n) == <<"e", "m", "p", "t", "y", ".", "r", "e", "p">> \o Decimal(n)

\* tpeds_tar_gz = f"{args.simBlockId}.{replicaNum}.tpeds.tar.gz"
TpedsTarGz(simBlockId, n) ==
    simBlockId \o <<".">> \o Decimal(n) \o <<".", "t", "p", "e", "d", "s", ".", "t", "a", "r", ".", "g", "z">>

\* a file the simulator writes for --tped <tpedPrefix>: <tpedPrefix>_<pop>.tped
TpedFile(prefix, pop) == prefix \o <<"_">> \o Decimal(pop) \o <<".", "t", "p", "e", "d">>

\* ------------------------------------------------------------------------
\* slurp_file, open_or_gzopen, dump_file
\* ------------------------------------------------------------------------

\* the gzip container: a marker in front of the compressed payload
GzMagic == "GZ"

Gzip(data) == <<GzMagic>> \o data

IsGzip(raw) == raw # <<>> /\ Head(raw) = GzMagic

PyError == [t |-> "error", v |-> <<>>]

\* open_or_gzopen(fname).read() with the default mode 'r': a '.gz' name goes
\* to gzip.open(fname, 'r'), which is binary mode and yields bytes; any other
\* name goes to open(fname) and yields str
ReadAll(f) ==
    IF EndsWith(f.fname, <<".", "g", "z">>)
    THEN IF IsGzip(f.raw) THEN [t |-> "bytes", v |-> Tail(f.raw)] ELSE PyError
    ELSE [t |-> "str", v |-> f.raw]

\* slurp_file(fname): a missing file and a file over maxSizeMb megabytes raise
slurp_file(f) ==
    IF ~f.exists THEN PyError
    ELSE IF maxSizeMb # 0 /\ f.size > maxSizeMb * 1024 * 1024 THEN PyError
    ELSE ReadAll(f)

\* a + b of two slurped values: str + bytes raises TypeError
Concat(a, b) ==
    IF a.t = "error" \/ b.t = "error" THEN PyError
    ELSE IF a.t # b.t THEN PyError
    ELSE [t |-> a.t, v |-> a.v \o b.v]

\* repr() escapes of the characters of a bytes value
RECURSIVE Escaped(_)
Escaped(s) == IF s = <<>> THEN <<>>
              ELSE (IF Head(s) = "\n" THEN <<"\\", "n">> ELSE <<Head(s)>>) \o Escaped(Tail(s))

\* str(value) as dump_file writes it: str(bytes) is the b'...' literal
Str(value) == IF value.t = "bytes" THEN <<"b", "'">> \o Escaped(value.v) \o <<"'">>
              ELSE value.v

\* the text do_main hands to dump_file for the combined parameter file
CombinedText(common, variable) == Str(Concat(slurp_file(common), slurp_file(variable)))

\* ------------------------------------------------------------------------
\* Inputs explored
\* ------------------------------------------------------------------------

TextA == <<"a", "=", "1", "\n">>

TextB == <<"b", "=", "2", "\n">>

SizeLimit == maxSizeMb * 1024 * 1024

CommonFiles ==
    { [fname |-> <<"c", ".", "p", "a", "r">>, exists |-> TRUE, size |-> Len(TextA), raw |-> TextA],
      [fname |-> <<"c", ".", "p", "a", "r", ".", "g", "z">>, exists |-> TRUE, size |-> Len(Gzip(TextA)), raw |-> Gzip(TextA)],
      [fname |-> <<"c", ".", "p", "a", "r">>, exists |-> FALSE, size |-> 0, raw |-> <<>>],
      [fname |-> <<"c", ".", "p", "a", "r">>, exists |-> TRUE, size |-> SizeLimit + 1, raw |-> TextA] }

VariableFiles ==
    { [fname |-> <<"v", ".", "p", "a", "r">>, exists |-> TRUE, size |-> Len(TextB), raw |-> TextB],
      [fname |-> <<"v", ".", "p", "a", "r", ".", "g", "z">>, exists |-> TRUE, size |-> Len(Gzip(TextB)), raw |-> Gzip(TextB)],
      [fname |-> <<"v", ".", "p", "a", "r", ".", "g", "z">>, exists |-> TRUE, size |-> Len(TextB), raw |-> TextB],
      [fname |-> <<"v", ".", "p", "a", "r">>, exists |-> TRUE, size |-> SizeLimit, raw |-> TextB],
      [fname |-> <<"v", ".", "p", "a", "r">>, exists |-> FALSE, size |-> 0, raw |-> <<>>] }

SimBlockIds ==
    { <<"b", "l", "k">>,
      <<"e", "m", "p", "t", "y">>,
      <<"b", ".", "1">> }

ModelIds == {"m1", "m2"}

BlockNums == {0, 7}

NumSims == (0 - 1) .. MaxSims

SeedValues == {0, SeedMax}

\* contents of the sweep-info file left by a simulator run that exited zero
SweepOk1 == <<"1", " ", "3", " ", "0", ".", "1", " ", "2", " ", "0", ".", "0", " ", "0", ".", "0", "2", " ", "0", ".", "3", "3", "\n">>

SweepOk2 == <<" ", "7", "\t", "3", ".", "7", " ", " ", "0", ".", "1", "0", " ", "-", "2", ".", "5", " ", "0", " ", ".", "5", " ", "0", ".", "3", "3", " ", "\n">>

SweepInf == <<"1", " ", "1", " ", "i", "n", "f", " ", "1", " ", "0", ".", "5", " ", "0", ".", "0", "2", " ", "0", ".", "3", "3">>

SweepSix == <<"1", " ", "3", " ", "0", ".", "1", " ", "2", " ", "0", ".", "0", " ", "0", ".", "0", "2">>

SweepEight == <<"1", " ", "3", " ", "0", ".", "1", " ", "2", " ", "0", ".", "0", " ", "0", ".", "0", "2", " ", "0", ".", "3", "3", " ", "9">>

SweepNanPop == <<"1", " ", "n", "a", "n", " ", "0", ".", "1", " ", "2", " ", "0", ".", "0", " ", "0", ".", "0", "2", " ", "0", ".", "3", "3">>

SweepWord == <<"1", " ", "3", " ", "0", ".", "1", " ", "x", " ", "0", ".", "0", " ", "0", ".", "0", "2", " ", "0", ".", "3", "3">>

SweepContents == {SweepOk1, SweepOk2, SweepInf, SweepSix, SweepEight, SweepNanPop, SweepWord, <<>>}

\* populations for which a simulator run leaves a <tpedPrefix>_<pop>.tped file
PopSets == {{}, {1}}

\* ------------------------------------------------------------------------
\* State
\* ------------------------------------------------------------------------

VARIABLES
    args,            \* the parsed command line (and the two input files it names)
    pc,              \* position of do_main: combine, loop, sim, tar, sweep, done, fatal
    fatal,           \* what raised the uncaught error, "none" while there is none
    replicaNum,      \* index of the list comprehension of do_main
    loc,             \* locals of the run_one_replica call in progress
    files,           \* files written in the working directory, with their writer
    combinedData,    \* content of paramFileCombined.par
    combinedWrites,  \* number of times paramFileCombined.par was written
    seedDraws,       \* number of randint calls
    sweepInfo,       \* content of the sweep-info file of the replica in progress
    simCalls,        \* the coalescent command lines run so far, in order
    runLog,          \* every _run call so far: replica, program, outcome
    replicaInfos,    \* the ReplicaInfo dicts returned so far, in order
    outJson,         \* the manifest file
    manifestWrites   \* number of times the manifest file was opened for writing

vars == <<args, pc, fatal, replicaNum, loc, files, combinedData, combinedWrites,
          seedDraws, sweepInfo, simCalls, runLog, replicaInfos, outJson, manifestWrites>>

ByMain == [who |-> "do_main", n |-> 0]

ByReplica(n) == [who |-> "run_one_replica", n |-> n]

NoLocals == [randomSeed |-> 0, tpedPrefix |-> <<>>, trajFile |-> <<>>,
             sweepInfoFile |-> <<>>, emptyFile |-> <<>>, tpeds_tar_gz |-> <<>>]

NoManifest == [state |-> "absent", replicaInfos |-> <<>>]

Init ==
    /\ args \in [paramFileCommon : CommonFiles, paramFile : VariableFiles,
                 simBlockId : SimBlockIds, modelId : ModelIds, blockNum : BlockNums,
                 numSimsInBlock : NumSims]
    /\ pc = "combine"
    /\ fatal = "none"
    /\ replicaNum = 0
    /\ loc = NoLocals
    /\ files = {}
    /\ combinedData = <<>>
    /\ combinedWrites = 0
    /\ seedDraws = 0
    /\ sweepInfo = <<>>
    /\ simCalls = <<>>
    /\ runLog = <<>>
    /\ replicaInfos = <<>>
    /\ outJson = NoManifest
    /\ manifestWrites = 0

\* an uncaught exception ends the process
Raise(cause) ==
    /\ pc' = "fatal"
    /\ fatal' = cause

\* ------------------------------------------------------------------------
\* do_main, line 151-152: the combined parameter file
\* ------------------------------------------------------------------------

CombineParams ==
    /\ pc = "combine"
    /\ LET value == Concat(slurp_file(args.paramFileCommon), slurp_file(args.paramFile))
       IN  \/ /\ value.t = "error"
              /\ Raise("combiner")
              /\ UNCHANGED <<files, combinedData, combinedWrites>>
           \/ /\ value.t # "error"
              /\ \E written \in BOOLEAN :
                    IF written
                    THEN /\ files' = files \cup {[name |-> paramFileCombined, by |-> ByMain]}
                         /\ combinedData' = CombinedText(args.paramFileCommon, args.paramFile)
                         /\ combinedWrites' = combinedWrites + 1
                         /\ pc' = "loop"
                         /\ UNCHANGED fatal
                    ELSE /\ Raise("combiner")
                         /\ UNCHANGED <<files, combinedData, combinedWrites>>
    /\ UNCHANGED <<args, replicaNum, loc, seedDraws, sweepInfo, simCalls, runLog,
                   replicaInfos, outJson, manifestWrites>>

\* ------------------------------------------------------------------------
\* run_one_replica
\* ------------------------------------------------------------------------

\* variant: a loop that also runs index n
InRangeInclusive(i, n) == 0 <= i /\ i <= n

\* range(args.numSimsInBlock)
InRange(i, n) == 0 <= i /\ i < n

\* variant: a seed range one larger at the top
RandIntOneMore == {r \in SeedValues \cup {SeedMax + 1} : 0 <= r /\ r <= SeedMax + 1}

\* randint(0, 2147483646), sampled
RandInt == {r \in SeedValues : 0 <= r /\ r <= SeedMax}

\* line 97-104: the seed, the names, the placeholder file
StartReplica ==
    /\ pc = "loop"
    /\ InRange(replicaNum, args.numSimsInBlock)
    /\ \E randomSeed \in RandInt, created \in BOOLEAN :
          /\ seedDraws' = seedDraws + 1
          /\ loc' = [randomSeed |-> randomSeed,
                     tpedPrefix |-> TpedPrefix(args.simBlockId, replicaNum),
                     trajFile |-> TrajFile(args.simBlockId, replicaNum),
                     sweepInfoFile |-> SweepInfoFile(replicaNum),
                     emptyFile |-> EmptyFile(replicaNum),
                     tpeds_tar_gz |-> <<>>]
          /\ IF created
             THEN /\ files' = files \cup {[name |-> EmptyFile(replicaNum), by |-> ByReplica(replicaNum)]}
                  /\ pc' = "sim"
                  /\ UNCHANGED fatal
             ELSE /\ Raise("placeholder")
                  /\ UNCHANGED files
    /\ UNCHANGED <<args, replicaNum, combinedData, combinedWrites, sweepInfo, simCalls,
                   runLog, replicaInfos, outJson, manifestWrites>>

\* line 105-110: the command line, as the fields the simulator reads from it
Cosi2Cmd(n, l) ==
    [replicaNum |-> n,
     COSI_SAVE_TRAJ |-> l.trajFile,
     COSI_SAVE_SWEEP_INFO |-> l.sweepInfoFile,
     p |-> paramFileCombined,
     r |-> l.randomSeed,
     tped |-> l.tpedPrefix]

\* outcomes of subprocess.check_call(cmd, shell=True): it returns, it raises
\* CalledProcessError for a non-zero exit status, or starting /bin/sh raises
\* OSError (argument list too long, fork failure)
RunOutcomes == {"returned", "CalledProcessError", "OSError"}

\* variant: no except clause
CaughtNothing(exc) == FALSE

\* variant: except Exception
CaughtAnyException(exc) == TRUE

\* line 121: except subprocess.SubprocessError
Caught(exc) == exc \in {"CalledProcessError", "TimeoutExpired"}

\* variant: a failed ReplicaInfo that keeps the trajectory file name
FailedReplicaInfoKeepsTraj(a, n, l) ==
    [modelId |-> a.modelId, blockNum |-> a.blockNum, replicaNum |-> n,
     succeeded |-> FALSE, randomSeed |-> l.randomSeed,
     tpeds |-> l.emptyFile, traj |-> l.trajFile,
     selPop |-> 0, selGen |-> Float(0), selBegPop |-> 0,
     selBegGen |-> Float(0), selCoeff |-> Float(0), selFreq |-> Float(0)]

\* line 122-125
FailedReplicaInfo(a, n, l) ==
    [modelId |-> a.modelId, blockNum |-> a.blockNum, replicaNum |-> n,
     succeeded |-> FALSE, randomSeed |-> l.randomSeed,
     tpeds |-> l.emptyFile, traj |-> l.emptyFile,
     selPop |-> 0, selGen |-> Float(0), selBegPop |-> 0,
     selBegGen |-> Float(0), selCoeff |-> Float(0), selFreq |-> Float(0)]

\* line 116-120: f is map(float, ...) of the seven fields
SucceededReplicaInfo(a, n, l, f) ==
    [modelId |-> a.modelId, blockNum |-> a.blockNum, replicaNum |-> n,
     succeeded |-> TRUE, randomSeed |-> l.randomSeed,
     tpeds |-> l.tpeds_tar_gz, traj |-> l.trajFile,
     selPop |-> IntOf(f[2]), selGen |-> f[3], selBegPop |-> IntOf(f[4]),
     selBegGen |-> f[5], selCoeff |-> f[6], selFreq |-> f[7]]

\* run_one_replica returns info; the list comprehension moves to the next index
Return(info) ==
    /\ replicaInfos' = Append(replicaInfos, info)
    /\ replicaNum' = replicaNum + 1
    /\ loc' = NoLocals
    /\ sweepInfo' = <<>>
    /\ pc' = "loop"
    /\ UNCHANGED fatal

\* variant: a caught failure runs the simulator again for the same replica
ExceptRetry(exc) ==
    IF Caught(exc)
    THEN /\ pc' = "sim"
         /\ UNCHANGED <<fatal, replicaInfos, replicaNum, loc, sweepInfo>>
    ELSE /\ Raise(exc)
         /\ UNCHANGED <<replicaInfos, replicaNum, loc, sweepInfo>>

\* the exception handling of the try block, line 111-127
Except(exc) ==
    IF Caught(exc)
    THEN Return(FailedReplicaInfo(args, replicaNum, loc))
    ELSE /\ Raise(exc)
         /\ UNCHANGED <<replicaInfos, replicaNum, loc, sweepInfo>>

\* line 112: _run(cosi2_cmd)
RunSim ==
    /\ pc = "sim"
    /\ simCalls' = Append(simCalls, Cosi2Cmd(replicaNum, loc))
    /\ \E outcome \in RunOutcomes, pops \in PopSets, text \in SweepContents :
          /\ runLog' = Append(runLog, [replicaNum |-> replicaNum, prog |-> "coalescent",
                                       outcome |-> outcome])
          /\ IF outcome = "returned"
             THEN
               /\ files' = files \cup
                     {[name |-> loc.trajFile, by |-> ByReplica(replicaNum)],
                      [name |-> loc.sweepInfoFile, by |-> ByReplica(replicaNum)]} \cup
                     {[name |-> TpedFile(loc.tpedPrefix, pop), by |-> ByReplica(replicaNum)] : pop \in pops}
               /\ sweepInfo' = text
               /\ pc' = "tar"
               /\ UNCHANGED <<fatal, replicaInfos, replicaNum, loc>>
             ELSE
               /\ pops = {}
               /\ text = <<>>
               /\ Except(outcome)
               /\ UNCHANGED files
    /\ UNCHANGED <<args, combinedData, combinedWrites, seedDraws, outJson, manifestWrites>>

\* the shell pattern {tpedPrefix}_*.tped
MatchesTpedGlob(name, prefix) ==
    LET head == prefix \o <<"_">>
        tail == <<".", "t", "p", "e", "d">>
    IN  /\ Len(name) >= Len(head) + Len(tail)
        /\ SubSeq(name, 1, Len(head)) = head
        /\ EndsWith(name, tail)

\* line 114-115: tar fails when the pattern matches no file, and may fail anyway
RunTar ==
    /\ pc = "tar"
    /\ LET tpeds_tar_gz == TpedsTarGz(args.simBlockId, replicaNum)
           matched == {f \in files : MatchesTpedGlob(f.name, loc.tpedPrefix)}
       IN  \E outcome \in RunOutcomes :
              /\ outcome = "returned" => matched # {}
              /\ runLog' = Append(runLog, [replicaNum |-> replicaNum, prog |-> "tar",
                                           outcome |-> outcome])
              /\ IF outcome = "returned"
                 THEN /\ files' = files \cup {[name |-> tpeds_tar_gz, by |-> ByReplica(replicaNum)]}
                      /\ loc' = [loc EXCEPT !.tpeds_tar_gz = tpeds_tar_gz]
                      /\ pc' = "sweep"
                      /\ UNCHANGED <<fatal, replicaInfos, replicaNum, sweepInfo>>
                 ELSE /\ Except(outcome)
                      /\ UNCHANGED files
    /\ UNCHANGED <<args, combinedData, combinedWrites, seedDraws, simCalls, outJson,
                   manifestWrites>>

\* map(float, slurp_file(sweepInfoFile).strip().split())
SweepFields(text) ==
    LET tokens == Split(Strip(text))
    IN  [i \in 1..Len(tokens) |-> ParseFloat(tokens[i])]

\* line 116-120 raise nothing: seven fields, each a float, the two populations finite
SweepInfoParses(f) ==
    /\ Len(f) = 7
    /\ \A i \in 1..7 : f[i].k # "err"
    /\ f[2].k = "fin"
    /\ f[4].k = "fin"

\* line 116-120: read the sweep info and build the ReplicaInfo
ParseSweepInfo ==
    /\ pc = "sweep"
    /\ LET f == SweepFields(sweepInfo)
       IN  IF SweepInfoParses(f)
           THEN Return(SucceededReplicaInfo(args, replicaNum, loc, f))
           ELSE Except("ValueError")
    /\ UNCHANGED <<args, files, combinedData, combinedWrites, seedDraws, simCalls, runLog,
                   outJson, manifestWrites>>

\* ------------------------------------------------------------------------
\* do_main, line 154-158: the manifest
\* ------------------------------------------------------------------------

WriteManifest ==
    /\ pc = "loop"
    /\ ~InRange(replicaNum, args.numSimsInBlock)
    /\ \E result \in {"written", "truncated", "absent"} :
          /\ manifestWrites' = manifestWrites + 1
          /\ outJson' = [state |-> result,
                         replicaInfos |-> IF result = "written" THEN replicaInfos ELSE <<>>]
          /\ IF result = "written"
             THEN pc' = "done" /\ UNCHANGED fatal
             ELSE Raise("manifest")
    /\ UNCHANGED <<args, replicaNum, loc, files, combinedData, combinedWrites, seedDraws,
                   sweepInfo, simCalls, runLog, replicaInfos>>

Next ==
    \/ CombineParams
    \/ StartReplica
    \/ RunSim
    \/ RunTar
    \/ ParseSweepInfo
    \/ WriteManifest

Spec == Init /\ [][Next]_vars

\* ------------------------------------------------------------------------
\* Properties
\* ------------------------------------------------------------------------

Indices(seq) == 1..Len(seq)

ZeroFloat == [k |-> "fin", v |-> 0]

\* the entries of runLog for one program
RunsOf(prog) == {i \in Indices(runLog) : runLog[i].prog = prog}

\* C1: a written manifest for numSimsInBlock = n >= 0 holds exactly n
\* ReplicaInfos, the one at 0-based position i having replicaNum = i, whatever
\* the outcomes of the individual replicas were.
C1_ManifestLength ==
    (outJson.state = "written" /\ args.numSimsInBlock >= 0) =>
        /\ Len(outJson.replicaInfos) = args.numSimsInBlock
        /\ \A i \in Indices(outJson.replicaInfos) : outJson.replicaInfos[i].replicaNum = i - 1

C1_Witness ==
    /\ outJson.state = "written"
    /\ args.numSimsInBlock = 2
    /\ Len(outJson.replicaInfos) = 2
    /\ outJson.replicaInfos[1].succeeded
    /\ ~outJson.replicaInfos[2].succeeded

\* C3: a ReplicaInfo with succeeded = false, in the list being built and in the
\* manifest, has selPop = selBegPop = 0 (ints), the four float fields 0.0, and
\* tpeds = traj = empty.rep<replicaNum>, a file that replica created; modelId,
\* blockNum are the block's and replicaNum is its index.
FailedInfoShape(info, i) ==
    /\ info.selPop = 0
    /\ info.selBegPop = 0
    /\ info.selGen = ZeroFloat
    /\ info.selBegGen = ZeroFloat
    /\ info.selCoeff = ZeroFloat
    /\ info.selFreq = ZeroFloat
    /\ info.tpeds = <<"e", "m", "p", "t", "y", ".", "r", "e", "p">> \o Decimal(i)
    /\ info.traj = info.tpeds
    /\ [name |-> info.tpeds, by |-> ByReplica(i)] \in files
    /\ info.modelId = args.modelId
    /\ info.blockNum = args.blockNum
    /\ info.replicaNum = i

C3_FailedInfoZeroed ==
    /\ \A i \in Indices(replicaInfos) :
          ~replicaInfos[i].succeeded => FailedInfoShape(replicaInfos[i], i - 1)
    /\ \A i \in Indices(outJson.replicaInfos) :
          ~outJson.replicaInfos[i].succeeded => FailedInfoShape(outJson.replicaInfos[i], i - 1)

C3_Witness ==
    /\ outJson.state = "written"
    /\ Len(outJson.replicaInfos) = 2
    /\ ~outJson.replicaInfos[2].succeeded
    /\ outJson.replicaInfos[2].randomSeed = SeedMax
    /\ \E i \in RunsOf("tar") : runLog[i].replicaNum = 1 /\ runLog[i].outcome = "CalledProcessError"

\* C7: the randomSeed of every ReplicaInfo, succeeded or failed, is within
\* [0, 2147483646] and is the -r value of that replica's simulator command
\* line; every replica attempt draws its own seed.
C7_SeedRecorded ==
    /\ \A i \in Indices(replicaInfos) :
          /\ replicaInfos[i].randomSeed >= 0
          /\ replicaInfos[i].randomSeed <= 2147483646
          /\ i <= Len(simCalls)
          /\ simCalls[i].replicaNum = replicaInfos[i].replicaNum
          /\ simCalls[i].r = replicaInfos[i].randomSeed
    /\ seedDraws >= Len(replicaInfos)
    /\ seedDraws >= Len(simCalls)
    /\ pc \in {"sim", "tar", "sweep"} => seedDraws = Len(replicaInfos) + 1

C7_Witness ==
    /\ Len(replicaInfos) = 2
    /\ replicaInfos[1].succeeded
    /\ ~replicaInfos[2].succeeded
    /\ replicaInfos[1].randomSeed = 0
    /\ replicaInfos[2].randomSeed = 2147483646

\* C9: the simulator is run exactly once per replica index, in increasing
\* index order and never again after a failure; the run for the next replica
\* starts only when the ReplicaInfo of the previous one exists; the manifest is
\* written once, after the last replica attempt.
C9_Sequential ==
    /\ \A k \in Indices(simCalls) : simCalls[k].replicaNum = k - 1
    /\ Len(simCalls) <= Len(replicaInfos) + 1
    /\ \A i \in RunsOf("tar") :
          /\ i > 1
          /\ runLog[i - 1] = [replicaNum |-> runLog[i].replicaNum, prog |-> "coalescent",
                              outcome |-> "returned"]
    /\ \A i \in RunsOf("coalescent") :
          /\ Len(replicaInfos) >= runLog[i].replicaNum
          /\ i > 1 => runLog[i - 1].replicaNum = runLog[i].replicaNum - 1
    /\ pc \in {"sim", "tar", "sweep"} => Len(replicaInfos) = replicaNum
    /\ manifestWrites <= 1
    /\ manifestWrites = 1 =>
          /\ pc \in {"done", "fatal"}
          /\ Len(replicaInfos) = (IF args.numSimsInBlock > 0 THEN args.numSimsInBlock ELSE 0)
          /\ Len(simCalls) = Len(replicaInfos)
    /\ outJson.state = "written" => outJson.replicaInfos = replicaInfos

C9_Witness ==
    /\ manifestWrites = 1
    /\ Len(simCalls) = 2
    /\ \E i \in RunsOf("coalescent") :
          runLog[i].replicaNum = 0 /\ runLog[i].outcome = "CalledProcessError"
    /\ \E i \in RunsOf("tar") : runLog[i].replicaNum = 1

\* C10: within a block the names generated for two different replica indices
\* (tped prefix, trajectory, sweep info, placeholder, archive) are pairwise
\* distinct and none is the combined parameter file, so no file of the working
\* directory has two writers.
GeneratedNames(simBlockId, n) ==
    {TpedPrefix(simBlockId, n), TrajFile(simBlockId, n), SweepInfoFile(n), EmptyFile(n),
     TpedsTarGz(simBlockId, n)}

C10_DistinctNames ==
    /\ \A i, j \in 0..(args.numSimsInBlock - 1) :
          i # j => GeneratedNames(args.simBlockId, i) \cap GeneratedNames(args.simBlockId, j) = {}
    /\ \A i \in 0..(args.numSimsInBlock - 1) :
          paramFileCombined \notin GeneratedNames(args.simBlockId, i)
    /\ \A f, g \in files : f.name = g.name => f.by = g.by
    /\ \A f \in files : f.by = ByMain <=> f.name = paramFileCombined

C10_Witness ==
    /\ pc = "done"
    /\ \E f, g \in files :
          /\ f.by = ByReplica(0)
          /\ g.by = ByReplica(1)
          /\ f.name = TpedsTarGz(args.simBlockId, 0)
          /\ g.name = TpedsTarGz(args.simBlockId, 1)
    /\ [name |-> paramFileCombined, by |-> ByMain] \in files

\* C2 (as stated): every failed simulator invocation (non-zero exit status or
\* an error raised while starting the process) is caught and leaves a
\* ReplicaInfo with succeeded = false for that replica.
C2_Claim ==
    \A i \in RunsOf("coalescent") :
        runLog[i].outcome # "returned" =>
            /\ Len(replicaInfos) > runLog[i].replicaNum
            /\ ~replicaInfos[runLog[i].replicaNum + 1].succeeded
            /\ replicaInfos[runLog[i].replicaNum + 1].replicaNum = runLog[i].replicaNum

\* C4 (as stated): the process ends with a fatal error and no manifest only on
\* combiner failure or on failure to write the manifest; otherwise it ends
\* normally with the manifest written.
C4_Claim ==
    /\ pc = "fatal" => (fatal \in {"combiner", "manifest"} /\ outJson.state # "written")
    /\ pc = "done" => outJson.state = "written"

\* C4 (amended): the process ends with a fatal error and no manifest only on
\* combiner failure, failure to create a placeholder file, an OSError from
\* starting the simulator or tar, a sweep-info file that does not parse after
\* both commands exited zero, or failure to write the manifest; a non-zero
\* exit status of any replica is never fatal, and a run that ends normally has
\* written the manifest.
C4_FatalCauses ==
    /\ pc = "fatal" <=> fatal # "none"
    /\ pc = "fatal" =>
          /\ fatal \in {"combiner", "placeholder", "OSError", "ValueError", "manifest"}
          /\ outJson.state # "written"
    /\ fatal = "combiner" => (seedDraws = 0 /\ runLog = <<>> /\ manifestWrites = 0)
    /\ fatal = "placeholder" =>
          (seedDraws = Len(replicaInfos) + 1 /\ Len(simCalls) = Len(replicaInfos))
    /\ fatal = "OSError" => (runLog # <<>> /\ runLog[Len(runLog)].outcome = "OSError")
    /\ fatal = "ValueError" =>
          /\ runLog # <<>>
          /\ runLog[Len(runLog)] = [replicaNum |-> replicaNum, prog |-> "tar", outcome |-> "returned"]
          /\ sweepInfo \in {SweepSix, SweepEight, SweepNanPop, SweepWord, <<>>}
    /\ fatal = "manifest" => manifestWrites = 1
    /\ pc = "done" => (outJson.state = "written" /\ manifestWrites = 1)

C4_Witness ==
    /\ pc = "done"
    /\ Len(outJson.replicaInfos) = 2
    /\ \A i \in Indices(outJson.replicaInfos) : ~outJson.replicaInfos[i].succeeded

\* the seven fields of a sweep-info text, when it holds seven finite numbers
SevenNumbers(text) ==
    /\ Len(Split(text)) = 7
    /\ \A i \in 1..7 : ParseFloat(Split(text)[i]).k = "fin"

Abs(x) == IF x >= 0 THEN x ELSE 0 - x

\* the integer part of the fixed-point value v
IntegerPart(v) ==
    CHOOSE z \in (0 - Abs(v)) .. Abs(v) :
        /\ Abs(z) * Scale <= Abs(v)
        /\ Abs(v) < (Abs(z) + 1) * Scale
        /\ v >= 0 => z >= 0
        /\ v <= 0 => z <= 0

\* the ReplicaInfo of a successful replica n whose sweep info was text
ExpectedSuccess(info, text, n) ==
    LET f == [i \in 1..7 |-> ParseFloat(Split(text)[i])]
    IN  /\ info.succeeded
        /\ info.replicaNum = n
        /\ info.selPop = IntegerPart(f[2].v)
        /\ info.selGen = f[3]
        /\ info.selBegPop = IntegerPart(f[4].v)
        /\ info.selBegGen = f[5]
        /\ info.selCoeff = f[6]
        /\ info.selFreq = f[7]
        /\ info.tpeds = args.simBlockId \o <<".">> \o Decimal(n)
                           \o <<".", "t", "p", "e", "d", "s", ".", "t", "a", "r", ".", "g", "z">>
        /\ info.traj = args.simBlockId \o <<".">> \o Decimal(n) \o <<".", "t", "r", "a", "j">>
        /\ text = SweepOk1 =>
              /\ info.selPop = 3
              /\ info.selBegPop = 2
              /\ info.selGen.v * 10 = Scale
              /\ info.selBegGen.v = 0
              /\ info.selCoeff.v * 50 = Scale
              /\ info.selFreq.v * 100 = 33 * Scale
        /\ text = SweepOk2 =>
              /\ info.selPop = 3
              /\ info.selBegPop = 0 - 2
              /\ info.selGen.v * 10 = Scale
              /\ info.selCoeff.v * 2 = Scale

\* C5 (as stated): when the simulator exited zero and the sweep-info file holds
\* 7 numbers, the ReplicaInfo returned for the replica has succeeded = true and
\* the fields parsed from the file.
C5_Claim ==
    [][(/\ pc \in {"tar", "sweep"}
        /\ SevenNumbers(sweepInfo)
        /\ Len(replicaInfos') = Len(replicaInfos) + 1)
       => ExpectedSuccess(replicaInfos'[Len(replicaInfos')], sweepInfo, replicaNum)]_vars

\* C5 (amended): when the simulator and the tar command both exited zero and
\* the sweep-info file holds 7 finite numbers f1..f7, a ReplicaInfo is returned
\* with succeeded = true, selPop = int(f2), selGen = f3, selBegPop = int(f4),
\* selBegGen = f5, selCoeff = f6, selFreq = f7, tpeds the archive and traj the
\* trajectory file of the replica.
C5_SweepFields ==
    [][(pc = "sweep" /\ SevenNumbers(sweepInfo))
       => /\ Len(replicaInfos') = Len(replicaInfos) + 1
          /\ ExpectedSuccess(replicaInfos'[Len(replicaInfos')], sweepInfo, replicaNum)]_vars

C5_Witness ==
    /\ Len(replicaInfos) = 2
    /\ replicaInfos[1].succeeded
    /\ replicaInfos[1].selPop = 3
    /\ replicaInfos[1].selBegPop = 0 - 2
    /\ replicaInfos[2].succeeded
    /\ replicaInfos[2].selBegPop = 2

\* the content of a parameter fragment, a gzip-compressed one decompressed
FragmentText(f) ==
    IF EndsWith(f.fname, <<".", "g", "z">>) /\ IsGzip(f.raw) THEN Tail(f.raw) ELSE f.raw

\* C6 (as stated): the combined parameter file is written once, before any
\* simulator run, with the common fragment followed by the variable fragment
\* as content; every run gets that file; a fragment that cannot be read aborts
\* the block before any replica is attempted.
C6_Claim ==
    /\ combinedWrites <= 1
    /\ simCalls # <<>> => combinedWrites = 1
    /\ combinedWrites = 1 =>
          combinedData = FragmentText(args.paramFileCommon) \o FragmentText(args.paramFile)
    /\ \A k \in Indices(simCalls) : simCalls[k].p = paramFileCombined
    /\ ( /\ pc # "combine"
         /\ \/ slurp_file(args.paramFileCommon).t = "error"
            \/ slurp_file(args.paramFile).t = "error" )
       => (pc = "fatal" /\ seedDraws = 0 /\ simCalls = <<>> /\ combinedWrites = 0)

\* C8 (as stated): once the simulator exited zero, a failure of the packaging
\* or of the sweep-info parsing is fatal, with no manifest, and is never
\* recorded as a ReplicaInfo with succeeded = false.
C8_Claim ==
    /\ \A i \in RunsOf("coalescent") :
          (runLog[i].outcome = "returned" /\ Len(replicaInfos) > runLog[i].replicaNum)
             => replicaInfos[runLog[i].replicaNum + 1].succeeded
    /\ \A i \in RunsOf("tar") :
          runLog[i].outcome # "returned" =>
             (pc = "fatal" /\ outJson.state = "absent"
              /\ Len(replicaInfos) = runLog[i].replicaNum)

\* a step that ends the process with an uncaught error, no ReplicaInfo added
\* and no manifest
FatalStep ==
    /\ pc' = "fatal"
    /\ replicaInfos' = replicaInfos
    /\ outJson.state = "absent"
    /\ outJson' = outJson

\* C8 (amended): once the simulator exited zero, a sweep-info file that cannot
\* be parsed, or an OSError from starting tar, is fatal with no manifest
\* written; a non-zero exit status of tar is caught and recorded as a
\* ReplicaInfo with succeeded = false, and the loop goes on.
C8_AfterSimulator ==
    /\ [][/\ (pc = "sweep" /\ sweepInfo \in {SweepSix, SweepEight, SweepNanPop, SweepWord, <<>>})
             => FatalStep
          /\ (pc = "tar" /\ runLog'[Len(runLog')].outcome = "OSError")
             => FatalStep
          /\ (pc = "tar" /\ runLog'[Len(runLog')].outcome = "CalledProcessError")
             => /\ pc' = "loop"
                /\ Len(replicaInfos') = Len(replicaInfos) + 1
                /\ ~replicaInfos'[Len(replicaInfos')].succeeded
                /\ replicaInfos'[Len(replicaInfos')].replicaNum = replicaNum
                /\ replicaNum' = replicaNum + 1]_vars
    /\ [](pc = "fatal" => outJson.state # "written")

C8_Witness ==
    /\ pc = "fatal"
    /\ fatal = "ValueError"
    /\ Len(replicaInfos) = 1
    /\ ~replicaInfos[1].succeeded
    /\ \E i \in RunsOf("tar") : runLog[i].replicaNum = 0 /\ runLog[i].outcome = "CalledProcessError"
    /\ outJson.state = "absent"

====
